---- MODULE Spec2Model ----
(***************************************************************************)
(* Model of arran4/interactions: the scenario enumerator, the list and     *)
(* render commands and the grid renderer's layout.                         *)
(*                                                                         *)
(* src/main.go holds two revisions of the program:                         *)
(*   rev = "five"   main.go:1-714     five axes (AB, C, D, timing, type)   *)
(*   rev = "three"  main.go:716-1441  three axes (AB, C, D)                *)
(* and src/cmd/interactions/render.go (renderCmd, and the migration notes   *)
(* from line 62 on) with src/unnamed/part_000 (listCmd) hold the generated *)
(* command wrappers of a third revision (rev = "cmd"), whose library       *)
(* (interactions.Render, interactions.List) and root command are not in    *)
(* src/.                                                                   *)
(*                                                                         *)
(* Text: Go strings are TLA+ strings and fmt.Sprintf is concatenation.     *)
(* A rune outside ASCII is written <U+hhhh>.                               *)
(***************************************************************************)
EXTENDS Integers, Sequences, FiniteSets, TLC

\* ------------------------------------------------------------------ bounds
\* the values given to --columns range over MinColumns..MaxColumns
MaxColumns == 3
\* invocations of the program in one behaviour of SpecRuns
MaxRuns == 2

MinColumns == 0 - 1

\* ------------------------------------------------------- program constants
defaultColumns == 8
panelW == 360
panelH == 220
margin == 20
titleHeight == 50
legendHeight == 120

Revisions == {"three", "five", "cmd"}

\* ------------------------------------------------------------------ state
VARIABLES
    rev,        \* the revision of the program that runs
    runs,       \* number of invocations of the program so far, this one included
    prev,       \* the scenarios the latest earlier invocation generated, or <<>>
    pc,         \* the position of the invocation
    args,       \* os.Args[1:], after the flag package has looked at it
    loop,       \* the loop variables of generateScenarios, <<>> outside the loops
    scenarios,  \* the slice generateScenarios builds and returns
    i,          \* the index of the range loop over scenarios (runList, renderAllScenarios)
    stdout,     \* what was printed, one element per line (the usage text is one element)
    logged,     \* what the log package wrote
    canvas,     \* the canvas of renderAllScenarios: its size and what was drawn, in order
    file,       \* the output file: "absent", "created" (os.Create), "written" (png.Encode)
    err,        \* the error run returned to main
    status,     \* "running", "ok" (exit 0), "fatal" (log.Fatal: exit 1)
    call        \* a drawing helper called on its own: its name, arguments and result

vars == <<rev, runs, prev, pc, args, loop, scenarios, i, stdout, logged, canvas, file, err,
          status, call>>

\* ---------------------------------------------------------------- helpers
Range(s) == {s[k] : k \in 1..Len(s)}

NoError == "nil"

\* no helper is called on its own
NoCall == [fn |-> "none"]

\* ------------------------------------------- scenario text, three-axis rev
abTitle_SameForBothDirections(ab) ==
    CASE ab = 0 -> "A & B: no direct link"
      [] ab = 1 -> "A <U+2192> B"
      [] ab = 2 -> "A <U+2192> B"
      [] ab = 3 -> "A <U+2194> B (mutualism)"
      [] OTHER  -> "A/B pattern ?"

abTitle(ab) ==
    CASE ab = 0 -> "A & B: no direct link"
      [] ab = 1 -> "A <U+2192> B"
      [] ab = 2 -> "B <U+2192> A"
      [] ab = 3 -> "A <U+2194> B (mutualism)"
      [] OTHER  -> "A/B pattern ?"

externalSentenceFragment(role, p) ==
    CASE p = 0 -> "has no effect on A or B"
      [] p = 1 -> "influences A only"
      [] p = 2 -> "influences B only"
      [] p = 3 -> "influences both A and B"
      [] OTHER -> "?"

externalSubtitle(cPat, dPat) ==
    "C " \o externalSentenceFragment("C", cPat) \o "; D "
         \o externalSentenceFragment("D", dPat)

Edge(from, to, bidi) == [From |-> from, To |-> to, Bidirectional |-> bidi]

\* the A-B edges, switch ab (main.go:856-865)
abEdges3(ab) ==
    CASE ab = 1 -> <<Edge("A", "B", FALSE)>>
      [] ab = 2 -> <<Edge("B", "A", FALSE)>>
      [] ab = 3 -> <<Edge("A", "B", TRUE)>>
      [] OTHER  -> <<>>

\* the edges of C or D when "both" reaches A only
externalEdges3_BothIsAOnly(role, p) ==
    IF p = 0 THEN <<>>
    ELSE (IF p = 1 \/ p = 3 THEN <<Edge(role, "A", FALSE)>> ELSE <<>>)
      \o (IF p = 2 THEN <<Edge(role, "B", FALSE)>> ELSE <<>>)

\* the edges of C or D (main.go:868-887)
externalEdges3(role, p) ==
    IF p = 0 THEN <<>>
    ELSE (IF p = 1 \/ p = 3 THEN <<Edge(role, "A", FALSE)>> ELSE <<>>)
      \o (IF p = 2 \/ p = 3 THEN <<Edge(role, "B", FALSE)>> ELSE <<>>)

\* nodesSet with C whatever its pattern
nodesSet3_AlwaysC(cPat, dPat) ==
    {"A", "B", "C"} \cup (IF dPat # 0 THEN {"D"} ELSE {})

nodesSet3(cPat, dPat) ==
    {"A", "B"} \cup (IF cPat # 0 THEN {"C"} ELSE {})
               \cup (IF dPat # 0 THEN {"D"} ELSE {})

nodeOrder == <<"C", "D", "A", "B">>

\* the body of the innermost loop of the three-axis generateScenarios
Scenario3(ab, cPat, dPat) ==
    [ Title    |-> abTitle(ab),
      Subtitle |-> externalSubtitle(cPat, dPat),
      Nodes    |-> SelectSeq(nodeOrder, LAMBDA name : name \in nodesSet3(cPat, dPat)),
      Edges    |-> abEdges3(ab) \o externalEdges3("C", cPat) \o externalEdges3("D", dPat) ]

\* -------------------------------------------- scenario text, five-axis rev
abPatterns   == <<"none", "A->B", "B->A", "A<->B">>
cPatterns    == <<"none", "C->A", "C->B", "C->A,B">>
dPatterns    == <<"none", "D->A", "D->B", "D->A,B">>
timePatterns == <<"A,B same", "A before B", "B before A">>
typePatterns == <<"A,B events", "A event, B process", "A process, B event", "A,B processes">>

Node(name, y, isProcess) == [Name |-> name, Y |-> y, IsProcess |-> isProcess]

\* the layers of A and B with the later one on top
timeLayers_LaterOnTop(timePat) ==
    CASE timePat = "A,B same"   -> <<0, 0>>
      [] timePat = "A before B" -> <<1, 0>>
      [] timePat = "B before A" -> <<0, 1>>
      [] OTHER                  -> <<0, 0>>

\* switch timePat (main.go:153-160): the layers of A and B
timeLayers(timePat) ==
    CASE timePat = "A,B same"   -> <<0, 0>>
      [] timePat = "A before B" -> <<0, 1>>
      [] timePat = "B before A" -> <<1, 0>>
      [] OTHER                  -> <<0, 0>>

\* switch typePat (main.go:162-171): the IsProcess flags of A and B
typeFlags(typePat) ==
    CASE typePat = "A,B events"         -> <<FALSE, FALSE>>
      [] typePat = "A event, B process" -> <<FALSE, TRUE>>
      [] typePat = "A process, B event" -> <<TRUE, FALSE>>
      [] typePat = "A,B processes"      -> <<TRUE, TRUE>>
      [] OTHER                          -> <<FALSE, FALSE>>

abEdges5(abPat) ==
    CASE abPat = "A->B"  -> <<Edge("A", "B", FALSE)>>
      [] abPat = "B->A"  -> <<Edge("B", "A", FALSE)>>
      [] abPat = "A<->B" -> <<Edge("A", "B", TRUE)>>
      [] OTHER           -> <<>>

externalNodes5(role, pat) ==
    IF pat # "none" THEN <<Node(role, 0, FALSE)>> ELSE <<>>

externalEdges5(role, pat) ==
    IF pat = "none" THEN <<>>
    ELSE (IF pat = role \o "->A" \/ pat = role \o "->A,B"
            THEN <<Edge(role, "A", FALSE)>> ELSE <<>>)
      \o (IF pat = role \o "->B" \/ pat = role \o "->A,B"
            THEN <<Edge(role, "B", FALSE)>> ELSE <<>>)

\* the body of the innermost loop of the five-axis generateScenarios
Scenario5(abPat, cPat, dPat, timePat, typePat) ==
    [ Title    |-> "AB: " \o abPat \o ", Time: " \o timePat \o ", Type: " \o typePat,
      Subtitle |-> "C: " \o cPat \o ", D: " \o dPat,
      Nodes    |-> << Node("A", timeLayers(timePat)[1], typeFlags(typePat)[1]),
                      Node("B", timeLayers(timePat)[2], typeFlags(typePat)[2]) >>
                   \o externalNodes5("C", cPat) \o externalNodes5("D", dPat),
      Edges    |-> abEdges5(abPat) \o externalEdges5("C", cPat) \o externalEdges5("D", dPat) ]

\* ------------------------------------------------------- the nested loops
\* upper limits of the loop variables, outermost first
loopLimits_ShortAB(r) ==
    IF r = "three" THEN <<3, 4, 4>>
    ELSE <<Len(abPatterns) - 1, Len(cPatterns), Len(dPatterns),
           Len(timePatterns), Len(typePatterns)>>

loopLimits(r) ==
    IF r = "three" THEN <<4, 4, 4>>
    ELSE <<Len(abPatterns), Len(cPatterns), Len(dPatterns),
           Len(timePatterns), Len(typePatterns)>>

loopStart(r) == [k \in 1..Len(loopLimits(r)) |-> 0]

\* one step of the loop nest from loop variable k inwards: the loop variable
\* k is incremented; when it reaches its limit the loop ends, it restarts at
\* 0 the next time round, and the enclosing loop k-1 steps.  <<>>: the
\* outermost loop has ended.
RECURSIVE stepLoops(_, _, _)
stepLoops(idx, lim, k) ==
    IF k = 0 THEN <<>>
    ELSE IF idx[k] + 1 < lim[k] THEN [idx EXCEPT ![k] = idx[k] + 1]
    ELSE stepLoops([idx EXCEPT ![k] = 0], lim, k - 1)

\* the D loop enclosing the C loop
loopNext_DOutsideC(idx, lim) ==
    LET swap(s) == [s EXCEPT ![2] = s[3], ![3] = s[2]]
        n == stepLoops(swap(idx), swap(lim), Len(idx))
    IN IF n = <<>> THEN <<>> ELSE swap(n)

loopNext(idx, lim) == stepLoops(idx, lim, Len(idx))

\* the scenario made by the loop body at loop variables idx (0-based)
\* a title that remembers an earlier invocation
loopBody_RemembersRuns(r, idx) ==
    LET s == IF r = "three"
             THEN Scenario3(idx[1], idx[2], idx[3])
             ELSE Scenario5(abPatterns[idx[1] + 1], cPatterns[idx[2] + 1],
                            dPatterns[idx[3] + 1], timePatterns[idx[4] + 1],
                            typePatterns[idx[5] + 1])
    IN IF runs > 1 THEN [s EXCEPT !.Title = s.Title \o " (again)"] ELSE s

loopBody(r, idx) ==
    IF r = "three"
    THEN Scenario3(idx[1], idx[2], idx[3])
    ELSE Scenario5(abPatterns[idx[1] + 1], cPatterns[idx[2] + 1], dPatterns[idx[3] + 1],
                   timePatterns[idx[4] + 1], typePatterns[idx[5] + 1])

\* -------------------------------------------------------------- arguments
\* cmd: args[0], "" when there is no argument.  flagErr: the flag package
\* rejects what follows args[0].  hasColumns/columns: --columns and its value.
\* long: --long.
Arg(cmd, flagErr, hasColumns, columns, long) ==
    [cmd |-> cmd, flagErr |-> flagErr, hasColumns |-> hasColumns,
     columns |-> columns, long |-> long]

NoArgs == Arg("", FALSE, FALSE, 0, FALSE)

Args ==
    {Arg(c, FALSE, FALSE, 0, FALSE) : c \in {"", "help", "--help", "-h", "bogus"}}
    \cup {Arg("render", FALSE, TRUE, n, FALSE) : n \in MinColumns..MaxColumns}
    \cup {Arg("render", FALSE, FALSE, 0, FALSE), Arg("render", TRUE, FALSE, 0, FALSE)}
    \cup {Arg("list", FALSE, FALSE, 0, l) : l \in BOOLEAN}
    \cup {Arg("list", TRUE, FALSE, 0, FALSE)}

\* fs.Int("columns", 8, ...) after fs.Parse
columnsFlag(a) == IF a.hasColumns THEN a.columns ELSE defaultColumns

\* ----------------------------------------------------------------- output
usageText == "Usage: interactions <command> [options]"

outputFlag == "interactions.png"

Digit == <<"0", "1", "2", "3", "4", "5", "6", "7", "8", "9">>

\* the decimal digits of k >= 0
RECURSIVE fmtDecimal(_)
fmtDecimal(k) ==
    IF k < 10 THEN Digit[k + 1] ELSE fmtDecimal(k \div 10) \o Digit[(k % 10) + 1]

\* the verb %d
fmt02d_NoPadding(k) == fmtDecimal(k)

\* the verb %02d: the decimal digits, padded with zeros on the left to width 2
fmt02d(k) ==
    LET d == fmtDecimal(k) IN IF Len(d) < 2 THEN "0" \o d ELSE d

\* the line runList prints for scenarios[k] (k 0-based)
listLine(k, s, long) ==
    IF long
    THEN fmt02d(k + 1) \o ". " \o s.Title \o " <U+2014> " \o s.Subtitle
    ELSE fmt02d(k + 1) \o ". " \o s.Title

\* ----------------------------------------------------------------- canvas
NoCanvas == [W |-> 0, H |-> 0, cols |-> 0, rows |-> 0, ops |-> <<>>, last |-> <<>>]

\* ops: what renderAllScenarios drew, in order; last: what the latest call of
\* drawScenario drew, in order.
\* something drawn on the canvas: what, for which scenario (-1: none), where
Draw(what, k, x, y) == [what |-> what, k |-> k, x |-> x, y |-> y]

\* Go's integer division truncates toward zero
goDiv(a, b) ==
    LET abs(n) == IF n < 0 THEN 0 - n ELSE n
        q == abs(a) \div abs(b)
    IN IF (a < 0) # (b < 0) THEN 0 - q ELSE q

gridRows_Floor(n, cols) == goDiv(n, cols)

\* rows := (len(scenarios) + cols - 1) / cols
gridRows(n, cols) == goDiv(n + cols - 1, cols)

imgW(cols) == cols * panelW + (cols + 1) * margin

imgH(rows) == titleHeight + legendHeight + rows * panelH + (rows + 2) * margin

legendTop == margin + titleHeight

\* x without the margin between the columns
panelX_NoMargin(k, cols) == margin + (k % cols) * panelW

panelX(k, cols) == margin + (k % cols) * (panelW + margin)

panelY(k, cols) == legendTop + legendHeight + margin + goDiv(k, cols) * (panelH + margin)

\* ------------------------------------------------------------------- text
approxCharWidth == 7
lineHeight == 14

\* len(w) of a word: its bytes; a rune written <U+hhhh> has three
wordLen(w) ==
    IF w \in {"<U+2192>", "<U+2194>", "<U+2014>"} THEN 3 ELSE Len(w)

\* strings.Join(ws, " ")
RECURSIVE joinWords(_)
joinWords(ws) ==
    IF ws = <<>> THEN ""
    ELSE IF Len(ws) = 1 THEN ws[1]
    ELSE ws[1] \o " " \o joinWords(Tail(ws))

\* ws with suffix appended to its last word
withSuffix(ws, suffix) == [ws EXCEPT ![Len(ws)] = @ \o suffix]

fragmentWords ==
    << <<"has", "no", "effect", "on", "A", "or", "B">>,
       <<"influences", "A", "only">>,
       <<"influences", "B", "only">>,
       <<"influences", "both", "A", "and", "B">> >>

timeWords == << <<"A,B", "same">>, <<"A", "before", "B">>, <<"B", "before", "A">> >>

typeWords ==
    << <<"A,B", "events">>, <<"A", "event,", "B", "process">>,
       <<"A", "process,", "B", "event">>, <<"A,B", "processes">> >>

\* the whitespace-separated words of the titles and subtitles of both revisions
knownWords ==
    { <<"A", "&", "B:", "no", "direct", "link">>, <<"A", "<U+2192>", "B">>,
      <<"B", "<U+2192>", "A">>, <<"A", "<U+2194>", "B", "(mutualism)">> }
    \cup { <<"C">> \o withSuffix(fragmentWords[c], ";") \o <<"D">> \o fragmentWords[d] :
             c \in 1..4, d \in 1..4 }
    \cup { <<"AB:", abPatterns[ab] \o ",", "Time:">> \o withSuffix(timeWords[tm], ",")
             \o <<"Type:">> \o typeWords[ty] : ab \in 1..4, tm \in 1..3, ty \in 1..4 }
    \cup { <<"C:", cPatterns[c] \o ",", "D:", dPatterns[d]>> : c \in 1..4, d \in 1..4 }

\* strings.Fields on a title or subtitle: the words that, joined by single
\* spaces, are the text (any other text counts as one word)
fieldsOf(text) ==
    IF \E ws \in knownWords : joinWords(ws) = text
    THEN CHOOSE ws \in knownWords : joinWords(ws) = text
    ELSE <<text>>

\* the loop of drawWrappedLabel over words[k..], line being the current line
\* and n its len: the lines appended from there on
RECURSIVE wrapFrom(_, _, _, _, _)
wrapFrom(words, k, line, n, maxWidth) ==
    IF k > Len(words) THEN <<line>>
    ELSE IF (n + 1 + wordLen(words[k])) * approxCharWidth <= maxWidth
    THEN wrapFrom(words, k + 1, line \o " " \o words[k], n + 1 + wordLen(words[k]), maxWidth)
    ELSE <<line>> \o wrapFrom(words, k + 1, words[k], wordLen(words[k]), maxWidth)

\* drawWrappedLabel after strings.Fields: the lines it draws
wrapLines(words, maxWidth) ==
    IF words = <<>> THEN <<>>
    ELSE wrapFrom(words, 2, words[1], wordLen(words[1]), maxWidth)

\* ----------------------------------------------------------- drawScenario
\* one drawing call of drawScenario: what is drawn, its text or node name(s),
\* and where: a point (x, y), or two points for a rectangle, a line, an arrow
PanelOp(what, label, x, y, x2, y2) ==
    [what |-> what, label |-> label, x |-> x, y |-> y, x2 |-> x2, y2 |-> y2]

Point(x, y) == [x |-> x, y |-> y]

\* positions[name]: the zero Point for a name the map does not hold
pointOf(positions, name) ==
    IF name \in DOMAIN positions THEN positions[name] ELSE Point(0, 0)

\* the 0-based index of x in the sequence seq
indexOf(seq, x) == (CHOOSE j \in 1..Len(seq) : seq[j] = x) - 1

\* fillRect and drawRectBorder of the panel at (X, Y)
frameOps(X, Y) ==
    << PanelOp("fill", "", X, Y, X + panelW, Y + panelH),
       PanelOp("border", "", X, Y, X + panelW, Y + panelH) >>

\* the drawLabel calls of drawWrappedLabel(text, x, y, maxWidth)
textOps(what, text, x, y, maxWidth) ==
    LET lines == wrapLines(fieldsOf(text), maxWidth)
    IN [j \in 1..Len(lines) |-> PanelOp(what, lines[j], x, y + (j - 1) * lineHeight, 0, 0)]

\* the value drawWrappedLabel returns
textHeight(text, maxWidth) == Len(wrapLines(fieldsOf(text), maxWidth)) * lineHeight

\* the edge loop: drawArrow or drawBidirectionalArrow between the positions of
\* the two nodes; both return without drawing when the two points coincide
edgeOps(edges, positions) ==
    LET calls == [j \in 1..Len(edges) |->
                    PanelOp(IF edges[j].Bidirectional THEN "biarrow" ELSE "arrow",
                            edges[j].From \o edges[j].To,
                            pointOf(positions, edges[j].From).x,
                            pointOf(positions, edges[j].From).y,
                            pointOf(positions, edges[j].To).x,
                            pointOf(positions, edges[j].To).y)]
    IN SelectSeq(calls, LAMBDA c : <<c.x, c.y>> # <<c.x2, c.y2>>)

\* ---- three-axis revision
\* incoming[n] when a bidirectional edge counts for its target only
incoming_ToOnly(s, n) ==
    Cardinality({j \in 1..Len(s.Edges) : s.Edges[j].To = n})

\* incoming[n] after the loop over s.Edges
incoming(s, n) ==
    Cardinality({j \in 1..Len(s.Edges) : s.Edges[j].To = n})
    + Cardinality({j \in 1..Len(s.Edges) : s.Edges[j].Bidirectional /\ s.Edges[j].From = n})

\* early without the fallback
earlyNodes_NoFallback(s) ==
    SelectSeq(s.Nodes, LAMBDA n : incoming(s, n) = 0)

\* early and late, after the fallback
earlyNodes(s) ==
    LET early == SelectSeq(s.Nodes, LAMBDA n : incoming(s, n) = 0)
    IN IF Len(early) = 0 THEN s.Nodes ELSE early

lateNodes(s) ==
    LET early == SelectSeq(s.Nodes, LAMBDA n : incoming(s, n) = 0)
    IN IF Len(early) = 0 THEN <<>> ELSE SelectSeq(s.Nodes, LAMBDA n : incoming(s, n) # 0)

\* every node of a row in the middle of the row
rowX_Middle(j, len, left, right) == goDiv(left + right, 2)

\* the x of the node with 0-based index j in a row of len nodes
rowX(j, len, left, right) ==
    IF len = 1 THEN goDiv(left + right, 2)
    ELSE left + goDiv((right - left) * j, len - 1)

\* positions, for the panel at (X, Y) whose text took extra more pixels
positions3(s, X, Y, extra) ==
    LET left  == X + 40
        right == X + panelW - 40
        topY  == Y + 90 + extra
        botY  == Y + 170 + extra
        early == earlyNodes(s)
        late  == lateNodes(s)
    IN [n \in Range(s.Nodes) |->
          IF n \in Range(early)
          THEN Point(rowX(indexOf(early, n), Len(early), left, right), topY)
          ELSE IF n \in Range(late)
          THEN Point(rowX(indexOf(late, n), Len(late), left, right), botY)
          ELSE Point(goDiv(left + right, 2), goDiv(topY + botY, 2))]

\* extraTextHeight
extraTextHeight(s) ==
    LET e == (textHeight(s.Title, panelW - 20) - lineHeight)
             + (textHeight(s.Subtitle, panelW - 20) - lineHeight)
    IN IF e < 0 THEN 0 ELSE e

\* the node loop: drawNode and drawLabel for every node
nodeOps3(s, positions) ==
    [j \in 1..(2 * Len(s.Nodes)) |->
        LET n  == s.Nodes[(j + 1) \div 2]
            pt == pointOf(positions, n)
        IN IF j % 2 = 1 THEN PanelOp("circle", n, pt.x, pt.y, 0, 0)
           ELSE PanelOp("label", n, pt.x - 5, pt.y + 5, 0, 0)]

\* the edges drawn after the nodes
drawScenario3_NodesFirst(s, X, Y) ==
    LET positions == positions3(s, X, Y, extraTextHeight(s))
    IN frameOps(X, Y)
       \o textOps("title", s.Title, X + 10, Y + 22, panelW - 20)
       \o textOps("subtitle", s.Subtitle, X + 10,
                  Y + 22 + textHeight(s.Title, panelW - 20) + 6, panelW - 20)
       \o nodeOps3(s, positions)
       \o edgeOps(s.Edges, positions)

\* what drawScenario draws, in order, for scenario s in the panel at (X, Y)
drawScenario3(s, X, Y) ==
    LET positions == positions3(s, X, Y, extraTextHeight(s))
    IN frameOps(X, Y)
       \o textOps("title", s.Title, X + 10, Y + 22, panelW - 20)
       \o textOps("subtitle", s.Subtitle, X + 10,
                  Y + 22 + textHeight(s.Title, panelW - 20) + 6, panelW - 20)
       \o edgeOps(s.Edges, positions)
       \o nodeOps3(s, positions)

\* ---- five-axis revision
\* levels[y]
levelNodes(s, y) == SelectSeq(s.Nodes, LAMBDA n : n.Y = y)

maxLevel(s) ==
    LET ys == {s.Nodes[j].Y : j \in 1..Len(s.Nodes)} \cup {0}
    IN CHOOSE m \in ys : \A y \in ys : y <= m

positions5(s, X, Y) ==
    LET yStep   == goDiv(panelH - 80, maxLevel(s) + 1)
        yOffset == Y + 80
    IN [name \in {s.Nodes[j].Name : j \in 1..Len(s.Nodes)} |->
          LET n     == s.Nodes[CHOOSE j \in 1..Len(s.Nodes) : s.Nodes[j].Name = name]
              nodes == levelNodes(s, n.Y)
              xStep == goDiv(panelW - 80, Len(nodes))
          IN Point(X + 40 + goDiv(xStep, 2) + indexOf(nodes, n) * xStep,
                   yOffset + n.Y * yStep)]

\* the node loop: drawProcess or drawNode, and drawLabel, for every node
nodeOps5(s, positions) ==
    [j \in 1..(2 * Len(s.Nodes)) |->
        LET n  == s.Nodes[(j + 1) \div 2]
            pt == pointOf(positions, n.Name)
        IN IF j % 2 = 1
           THEN PanelOp(IF n.IsProcess THEN "process" ELSE "circle", n.Name, pt.x, pt.y, 0, 0)
           ELSE PanelOp("label", n.Name, pt.x - 5, pt.y + 5, 0, 0)]

\* what drawScenario draws, in order, for scenario s in the panel at (X, Y)
drawScenario5(s, X, Y) ==
    LET positions == positions5(s, X, Y)
    IN frameOps(X, Y)
       \o textOps("title", s.Title, X + 10, Y + 22, panelW - 20)
       \o edgeOps(s.Edges, positions)
       \o nodeOps5(s, positions)

drawScenario(r, s, X, Y) ==
    IF r = "three" THEN drawScenario3(s, X, Y) ELSE drawScenario5(s, X, Y)

\* ------------------------------------------------------------------- Init
Init ==
    /\ rev \in Revisions
    /\ runs = 1
    /\ prev = <<>>
    /\ pc = "main"
    /\ args = NoArgs
    /\ loop = <<>>
    /\ scenarios = <<>>
    /\ i = 0
    /\ stdout = <<>>
    /\ logged = <<>>
    /\ canvas = NoCanvas
    /\ file = "absent"
    /\ err = NoError
    /\ status = "running"
    /\ call = NoCall

\* ---------------------------------------------------- main.go: run, main
\* main calls run(os.Args[1:]); run prints the usage or calls the subcommand
run ==
    /\ pc = "main"
    /\ rev \in {"three", "five"}
    /\ \E a \in Args :
        /\ args' = a
        /\ IF a.cmd = "" \/ a.cmd \in {"help", "--help", "-h"}
           THEN /\ stdout' = Append(stdout, usageText)
                /\ err' = NoError
                /\ pc' = "return"
           ELSE IF a.cmd = "render"
           THEN /\ pc' = "runRender"
                /\ UNCHANGED <<stdout, err>>
           ELSE IF a.cmd = "list"
           THEN /\ pc' = "runList"
                /\ UNCHANGED <<stdout, err>>
           ELSE /\ stdout' = Append(stdout, usageText)
                /\ err' = "unknown subcommand"
                /\ pc' = "return"
    /\ UNCHANGED <<call, rev, runs, prev, loop, scenarios, i, logged, canvas, file, status>>

\* runRender up to the call of generateScenarios
runRender ==
    /\ pc = "runRender"
    /\ IF args.flagErr
       THEN /\ err' = "flag"
            /\ pc' = "return"
            /\ UNCHANGED loop
       ELSE IF columnsFlag(args) < 1
       THEN /\ err' = "columns must be at least 1"
            /\ pc' = "return"
            /\ UNCHANGED loop
       ELSE /\ pc' = "generateScenarios"
            /\ loop' = loopStart(rev)
            /\ UNCHANGED err
    /\ UNCHANGED <<call, rev, runs, prev, args, scenarios, i, stdout, logged, canvas, file, status>>

\* runList that drops the error of fs.Parse
runList_IgnoresParseError ==
    /\ pc = "runList"
    /\ pc' = "generateScenarios"
    /\ loop' = loopStart(rev)
    /\ UNCHANGED <<call, rev, runs, prev, args, scenarios, i, stdout, logged, canvas, file, err, status>>

\* runList up to the call of generateScenarios
runList ==
    /\ pc = "runList"
    /\ IF args.flagErr
       THEN /\ err' = "flag"
            /\ pc' = "return"
            /\ UNCHANGED loop
       ELSE /\ pc' = "generateScenarios"
            /\ loop' = loopStart(rev)
            /\ UNCHANGED err
    /\ UNCHANGED <<call, rev, runs, prev, args, scenarios, i, stdout, logged, canvas, file, status>>

\* one iteration of the innermost loop of generateScenarios; after the last
\* one the slice is returned to runRender or runList
generateScenarios ==
    /\ pc = "generateScenarios"
    /\ scenarios' = Append(scenarios, loopBody(rev, loop))
    /\ loop' = loopNext(loop, loopLimits(rev))
    /\ pc' = IF loop' # <<>> THEN "generateScenarios"
             ELSE IF args.cmd = "render" THEN "renderAllScenarios"
             ELSE "list"
    /\ UNCHANGED <<call, rev, runs, prev, args, i, stdout, logged, canvas, file, err, status>>

\* the range loop of runList: one line
printLine ==
    /\ pc = "list"
    /\ i < Len(scenarios)
    /\ stdout' = Append(stdout, listLine(i, scenarios[i + 1], args.long))
    /\ i' = i + 1
    /\ UNCHANGED <<call, rev, runs, prev, pc, args, loop, scenarios, logged, canvas, file, err, status>>

\* runList returns nil after the loop
listReturn ==
    /\ pc = "list"
    /\ i >= Len(scenarios)
    /\ err' = NoError
    /\ pc' = "return"
    /\ UNCHANGED <<call, rev, runs, prev, args, loop, scenarios, i, stdout, logged, canvas, file, status>>

\* renderAllScenarios up to the panel loop: the canvas, its background, the
\* title and source lines, the legend
renderAllScenarios ==
    /\ pc = "renderAllScenarios"
    /\ LET cols == columnsFlag(args)
           rows == gridRows(Len(scenarios), cols)
       IN canvas' = [ W |-> imgW(cols), H |-> imgH(rows), cols |-> cols, rows |-> rows,
                      ops |-> << Draw("background", 0 - 1, 0, 0),
                                 Draw("title", 0 - 1, goDiv(imgW(cols), 2), margin + 18),
                                 Draw("source", 0 - 1, goDiv(imgW(cols), 2), margin + 36),
                                 Draw("legend", 0 - 1, margin, legendTop) >>,
                      last |-> <<>> ]
    /\ i' = 0
    /\ pc' = "panels"
    /\ UNCHANGED <<call, rev, runs, prev, args, loop, scenarios, stdout, logged, file, err, status>>

\* the panel loop: drawScenario for scenarios[i]
drawPanel ==
    /\ pc = "panels"
    /\ i < Len(scenarios)
    /\ canvas' = [canvas EXCEPT
                    !.ops  = Append(@, Draw("panel", i, panelX(i, canvas.cols),
                                            panelY(i, canvas.cols))),
                    !.last = drawScenario(rev, scenarios[i + 1], panelX(i, canvas.cols),
                                          panelY(i, canvas.cols))]
    /\ i' = i + 1
    /\ UNCHANGED <<call, rev, runs, prev, pc, args, loop, scenarios, stdout, logged, file, err, status>>

\* os.Create whose failure is logged with log.Printf
createFile_LogsAndGoesOn ==
    /\ pc = "panels"
    /\ i >= Len(scenarios)
    /\ \E ok \in BOOLEAN :
        IF ok
        THEN /\ file' = "created"
             /\ UNCHANGED logged
        ELSE /\ logged' = Append(logged, "failed to create output file")
             /\ UNCHANGED file
    /\ pc' = "encode"
    /\ UNCHANGED <<call, rev, runs, prev, args, loop, scenarios, i, stdout, canvas, err, status>>

\* os.Create at any point of the panel loop
createFile_BeforePanels ==
    /\ pc = "panels"
    /\ \E ok \in BOOLEAN :
        IF ok
        THEN /\ file' = "created"
             /\ pc' = "encode"
             /\ UNCHANGED <<logged, status>>
        ELSE /\ logged' = Append(logged, "failed to create output file")
             /\ status' = "fatal"
             /\ pc' = "exited"
             /\ UNCHANGED file
    /\ UNCHANGED <<call, rev, runs, prev, args, loop, scenarios, i, stdout, canvas, err>>

\* os.Create after the panel loop; log.Fatalf when it fails
createFile ==
    /\ pc = "panels"
    /\ i >= Len(scenarios)
    /\ \E ok \in BOOLEAN :
        IF ok
        THEN /\ file' = "created"
             /\ pc' = "encode"
             /\ UNCHANGED <<logged, status>>
        ELSE /\ logged' = Append(logged, "failed to create output file")
             /\ status' = "fatal"
             /\ pc' = "exited"
             /\ UNCHANGED file
    /\ UNCHANGED <<call, rev, runs, prev, args, loop, scenarios, i, stdout, canvas, err>>

\* png.Encode; log.Fatalf when it fails, else the log line and the return
encodePNG ==
    /\ pc = "encode"
    /\ \E ok \in BOOLEAN :
        IF ok
        THEN /\ file' = "written"
             /\ logged' = Append(logged, "Generated: " \o outputFlag)
             /\ err' = NoError
             /\ pc' = "return"
             /\ UNCHANGED status
        ELSE /\ logged' = Append(logged, "failed to encode PNG")
             /\ status' = "fatal"
             /\ pc' = "exited"
             /\ UNCHANGED <<file, err>>
    /\ UNCHANGED <<call, rev, runs, prev, args, loop, scenarios, i, stdout, canvas>>

\* main after run has returned: log.Fatal(err) when err != nil
main ==
    /\ pc = "return"
    /\ IF err # NoError
       THEN /\ logged' = Append(logged, err)
            /\ status' = "fatal"
       ELSE /\ status' = "ok"
            /\ UNCHANGED logged
    /\ pc' = "exited"
    /\ UNCHANGED <<call, rev, runs, prev, args, loop, scenarios, i, stdout, canvas, file, err>>

\* ------------------------------------- the generated commands (rev "cmd")
\* set.IntVar(&v.columns, "columns", 0, ...) after Flags.Parse
cmdColumnsFlag(a) == IF a.hasColumns THEN a.columns ELSE 0

\* the library takes 0 columns as "use the default"
renderColumns(columns) == IF columns = 0 THEN defaultColumns ELSE columns

\* the library rejects a column count below 1
renderRejects(columns) == renderColumns(columns) < 1

\* the commands the root command knows: help is not one of them
rootCommands == {"render", "list"}

\* the root command: the usage without arguments or with --help or -h, the
\* subcommand when it knows args[0], "unknown command" otherwise
rootExecute ==
    /\ pc = "main"
    /\ rev = "cmd"
    /\ \E a \in Args :
        /\ args' = a
        /\ IF a.cmd = "" \/ a.cmd \in {"--help", "-h"}
           THEN /\ stdout' = Append(stdout, usageText)
                /\ err' = NoError
                /\ pc' = "return"
           ELSE IF a.cmd \in rootCommands /\ a.cmd = "render"
           THEN /\ pc' = "renderCmd.Execute"
                /\ UNCHANGED <<stdout, err>>
           ELSE IF a.cmd \in rootCommands /\ a.cmd = "list"
           THEN /\ pc' = "listCmd.Execute"
                /\ UNCHANGED <<stdout, err>>
           ELSE /\ a.cmd \notin rootCommands
                /\ err' = "unknown command: " \o a.cmd
                /\ pc' = "return"
                /\ UNCHANGED stdout
    /\ UNCHANGED <<call, rev, runs, prev, loop, scenarios, i, logged, canvas, file, status>>

\* renderCmd.Execute: no subcommand is registered; Flags.Parse, then Render
renderCmdExecute ==
    /\ pc = "renderCmd.Execute"
    /\ IF args.flagErr
       THEN /\ err' = "flag parse error"
            /\ pc' = "return"
       ELSE /\ pc' = "Render"
            /\ UNCHANGED err
    /\ UNCHANGED <<call, rev, runs, prev, args, loop, scenarios, i, stdout, logged, canvas, file, status>>

\* listCmd.Execute: no subcommand is registered; Flags.Parse, then List
listCmdExecute ==
    /\ pc = "listCmd.Execute"
    /\ IF args.flagErr
       THEN /\ err' = "flag parse error"
            /\ pc' = "return"
       ELSE /\ pc' = "List"
            /\ UNCHANGED err
    /\ UNCHANGED <<call, rev, runs, prev, args, loop, scenarios, i, stdout, logged, canvas, file, status>>

\* interactions.Render(output, columns), which returns nothing: the grid is
\* drawn and written, or the column count is rejected
Render ==
    /\ pc = "Render"
    /\ IF renderRejects(cmdColumnsFlag(args))
       THEN /\ logged' = Append(logged, "columns must be at least 1")
            /\ status' = "fatal"
            /\ pc' = "exited"
            /\ UNCHANGED <<canvas, file, err>>
       ELSE /\ LET cols == renderColumns(cmdColumnsFlag(args))
               IN canvas' = [ W |-> 0, H |-> 0, cols |-> cols, rows |-> 0,
                              ops |-> <<Draw("grid", 0 - 1, 0, 0)>>, last |-> <<>> ]
            /\ file' = "written"
            /\ err' = NoError
            /\ pc' = "return"
            /\ UNCHANGED <<logged, status>>
    /\ UNCHANGED <<call, rev, runs, prev, args, loop, scenarios, i, stdout>>

\* interactions.List(long)
List ==
    /\ pc = "List"
    /\ stdout' = Append(stdout, IF args.long THEN "titles and subtitles" ELSE "titles")
    /\ err' = NoError
    /\ pc' = "return"
    /\ UNCHANGED <<call, rev, runs, prev, args, loop, scenarios, i, logged, canvas, file, status>>

\* ------------------------------------------------------ a later invocation
\* the program is started again: a new process, whatever the last one did
invokeAgain ==
    /\ pc = "exited"
    /\ runs < MaxRuns
    /\ runs' = runs + 1
    /\ prev' = IF scenarios # <<>> THEN scenarios ELSE prev
    /\ pc' = "main"
    /\ args' = NoArgs
    /\ loop' = <<>>
    /\ scenarios' = <<>>
    /\ i' = 0
    /\ stdout' = <<>>
    /\ logged' = <<>>
    /\ canvas' = NoCanvas
    /\ file' = "absent"
    /\ err' = NoError
    /\ status' = "running"
    /\ UNCHANGED <<call, rev>>

\* ------------------------------------------- drawWrappedLabel on its own
\* the longest text drawWrappedLabel is called with
MaxTextLen == 5

\* the characters of a text, each a string of length one
Chars == {"a", "b", " "}

\* the maxWidth arguments
WrapWidths == {7, 14, 28}

\* unicode.IsSpace
isSpace(ch) == ch = " "

\* strings.TrimSpace on a sequence of characters
RECURSIVE trimLeft(_)
trimLeft(cs) == IF cs # <<>> /\ isSpace(Head(cs)) THEN trimLeft(Tail(cs)) ELSE cs

RECURSIVE trimRight(_)
trimRight(cs) ==
    IF cs # <<>> /\ isSpace(cs[Len(cs)]) THEN trimRight(SubSeq(cs, 1, Len(cs) - 1)) ELSE cs

TrimSpace(cs) == trimRight(trimLeft(cs))

\* strings.Fields on a sequence of characters: the maximal runs without a
\* space, each as a string; word is the run that ends before cs[k]
RECURSIVE fieldsFrom(_, _, _)
fieldsFrom(cs, k, word) ==
    IF k > Len(cs) THEN (IF word = "" THEN <<>> ELSE <<word>>)
    ELSE IF isSpace(cs[k]) THEN (IF word = "" THEN <<>> ELSE <<word>>) \o fieldsFrom(cs, k + 1, "")
    ELSE fieldsFrom(cs, k + 1, word \o cs[k])

Fields(cs) == fieldsFrom(cs, 1, "")

\* drawWrappedLabel(img, text, x, y, maxWidth, col): the lines it draws with
\* drawLabel and the height it returns
wrappedLabel(text, maxWidth) ==
    LET trimmed == TrimSpace(text)
        words   == Fields(trimmed)
        lines   == wrapLines(words, maxWidth)
    IN IF trimmed = <<>> \/ Len(words) = 0
       THEN [lines |-> <<>>, height |-> 0]
       ELSE [lines |-> lines, height |-> Len(lines) * lineHeight]

\* the texts of at most n characters
RECURSIVE Texts(_)
Texts(n) ==
    IF n = 0 THEN {<<>>}
    ELSE Texts(n - 1) \cup {Append(cs, ch) : cs \in {t \in Texts(n - 1) : Len(t) = n - 1}, ch \in Chars}

\* a caller is about to call drawWrappedLabel
InitWrap ==
    /\ rev \in {"three", "five"}
    /\ runs = 1
    /\ prev = <<>>
    /\ pc = "drawWrappedLabel"
    /\ args = NoArgs
    /\ loop = <<>>
    /\ scenarios = <<>>
    /\ i = 0
    /\ stdout = <<>>
    /\ logged = <<>>
    /\ canvas = NoCanvas
    /\ file = "absent"
    /\ err = NoError
    /\ status = "running"
    /\ \E text \in Texts(MaxTextLen), maxWidth \in WrapWidths :
          call = [fn |-> "drawWrappedLabel", text |-> text, maxWidth |-> maxWidth,
                  returned |-> FALSE, lines |-> <<>>, height |-> 0]

drawWrappedLabel ==
    /\ pc = "drawWrappedLabel"
    /\ ~call.returned
    /\ call' = [call EXCEPT !.returned = TRUE,
                            !.lines = wrappedLabel(call.text, call.maxWidth).lines,
                            !.height = wrappedLabel(call.text, call.maxWidth).height]
    /\ pc' = "returned"
    /\ UNCHANGED <<rev, runs, prev, args, loop, scenarios, i, stdout, logged, canvas, file,
                   err, status>>

\* ------------------------------------------------- float64 arithmetic
\* A float64 of the sizes that occur here is a sign and a magnitude n + 0.f:
\* n the integer part, f the fraction as bits (most significant first), with
\* at most mantissaBits significant bits in n and f together.
mantissaBits == 53

Float(neg, n, f) == [neg |-> neg, n |-> n, f |-> f]

\* the bits of n, most significant first, and the number they spell
RECURSIVE toBits(_)
toBits(n) == IF n = 0 THEN <<>> ELSE Append(toBits(n \div 2), n % 2)

RECURSIVE fromBits(_)
fromBits(bits) ==
    IF bits = <<>> THEN 0
    ELSE 2 * fromBits(SubSeq(bits, 1, Len(bits) - 1)) + bits[Len(bits)]

\* bits plus one in the last place; one bit longer when all bits are 1
increment(bits) ==
    LET zeros == {j \in 1..Len(bits) : bits[j] = 0}
        last  == CHOOSE j \in zeros : \A k \in zeros : k <= j
    IN IF zeros = {} THEN <<1>> \o [j \in 1..Len(bits) |-> 0]
       ELSE [j \in 1..Len(bits) |-> IF j < last THEN bits[j] ELSE IF j = last THEN 1 ELSE 0]

\* the number of leading zeros
leadingZeros(bits) ==
    LET ones == {j \in 1..Len(bits) : bits[j] = 1}
    IN IF ones = {} THEN Len(bits) ELSE (CHOOSE j \in ones : \A k \in ones : j <= k) - 1

\* without the trailing zeros
trimZeros(bits) ==
    LET ones == {j \in 1..Len(bits) : bits[j] = 1}
    IN IF ones = {} THEN <<>> ELSE SubSeq(bits, 1, CHOOSE j \in ones : \A k \in ones : k <= j)

\* round to nearest, ties to even: the magnitude whose bits are all, the first
\* k of them the integer part, and sticky when the exact value has more
\* nonzero bits after all
roundNearestEven(all, k, sticky) ==
    LET z == leadingZeros(all)
    IN IF Len(all) - z <= mantissaBits
       THEN [n |-> fromBits(SubSeq(all, 1, k)), f |-> trimZeros(SubSeq(all, k + 1, Len(all)))]
       ELSE LET kept  == SubSeq(all, 1, z + mantissaBits)
                guard == all[z + mantissaBits + 1]
                rest  == sticky \/ \E j \in (z + mantissaBits + 2)..Len(all) : all[j] = 1
                up    == guard = 1 /\ (rest \/ kept[Len(kept)] = 1)
                res   == IF up THEN increment(kept) ELSE kept
                kk    == k + Len(res) - Len(kept)
            IN [n |-> fromBits(SubSeq(res, 1, kk)), f |-> trimZeros(SubSeq(res, kk + 1, Len(res)))]

\* 2^j modulo a
RECURSIVE pow2mod(_, _)
pow2mod(j, a) ==
    IF j = 0 THEN 1 % a
    ELSE IF j % 2 = 0 THEN (pow2mod(j \div 2, a) * pow2mod(j \div 2, a)) % a
    ELSE (2 * pow2mod(j - 1, a)) % a

\* what is left to divide of r / a (r < a) after j fraction bits, and bit j
remainderAfter(r, a, j) == (r * pow2mod(j, a)) % a
fractionBit(r, a, j) == IF 2 * remainderAfter(r, a, j - 1) >= a THEN 1 ELSE 0

\* float64(p) / float64(a) for integers p >= 0, a > 0: one bit more than the
\* mantissa holds is divided out, what is left decides the rounding
fdiv(p, a) ==
    LET ib    == toBits(p \div a)
        r     == p % a
        first == CHOOSE j \in 1..a : fractionBit(r, a, j) = 1
                                      /\ \A k \in 1..(j - 1) : fractionBit(r, a, k) = 0
        count == IF ib # <<>> THEN mantissaBits + 1 - Len(ib) ELSE first + mantissaBits
        m     == roundNearestEven(ib \o [j \in 1..count |-> fractionBit(r, a, j)], Len(ib),
                                  remainderAfter(r, a, count) # 0)
    IN IF r = 0 THEN Float(FALSE, p \div a, <<>>) ELSE Float(FALSE, m.n, m.f)

\* the bits lo..hi of the fraction f times the integer k >= 0, plus carry:
\* the product's bits at these places and the carry out of them
RECURSIVE mulRange(_, _, _, _, _)
mulRange(f, lo, hi, k, carry) ==
    IF lo > hi THEN [bits |-> <<>>, carry |-> carry]
    ELSE IF lo = hi
    THEN [bits |-> <<(f[lo] * k + carry) % 2>>, carry |-> (f[lo] * k + carry) \div 2]
    ELSE LET mid   == (lo + hi) \div 2
             lower == mulRange(f, mid + 1, hi, k, carry)
             upper == mulRange(f, lo, mid, k, lower.carry)
         IN IF lower.carry < 0 THEN lower
            ELSE [bits |-> upper.bits \o lower.bits, carry |-> upper.carry]

mulFraction(f, k) == mulRange(f, 1, Len(f), k, 0)

\* the exact product of the float64 t >= 0 and the integer d
exactMul(t, d) ==
    LET k == IF d < 0 THEN 0 - d ELSE d
        p == mulFraction(t.f, k)
    IN Float(d < 0, t.n * k + p.carry, trimZeros(p.bits))

\* a value rounded to float64
rounded(v) ==
    LET ib == toBits(v.n)
        m  == roundNearestEven(ib \o v.f, Len(ib), FALSE)
    IN Float(v.neg /\ (m.n # 0 \/ m.f # <<>>), m.n, m.f)

\* 1 - 0.f for a fraction f that is not zero
complement(f) ==
    LET g == trimZeros(f)
    IN [j \in 1..Len(g) |-> IF j < Len(g) THEN 1 - g[j] ELSE 1]

\* the exact sum of the integer y and the value v
exactAdd(y, v) ==
    LET zero  == trimZeros(v.f) = <<>>
        T     == IF ~v.neg THEN y + v.n ELSE IF zero THEN y - v.n ELSE y - v.n - 1
        g     == IF ~v.neg \/ zero THEN trimZeros(v.f) ELSE complement(v.f)
    IN IF T >= 0 THEN Float(FALSE, T, g)
       ELSE IF g = <<>> THEN Float(TRUE, 0 - T, <<>>)
       ELSE Float(TRUE, 0 - T - 1, complement(g))

\* float64(y) + t*float64(d): the product rounded before the sum, or product
\* and sum fused into one operation with one rounding
mulAdd(y, t, d, fused) ==
    IF fused THEN rounded(exactAdd(y, exactMul(t, d)))
    ELSE rounded(exactAdd(y, rounded(exactMul(t, d))))

\* math.Floor, and whether the value is an integer
floorOf(v) == IF ~v.neg THEN v.n ELSE IF v.f = <<>> THEN 0 - v.n ELSE 0 - v.n - 1

\* v >= float64(k), v <= float64(k) for an integer k
geInt(v, k) == floorOf(v) >= k
leInt(v, k) == floorOf(v) < k \/ (floorOf(v) = k /\ v.f = <<>>)

\* int(v): toward zero
truncInt(v) == IF v.neg THEN 0 - v.n ELSE v.n

\* ------------------------------------------ intersectionPoint on its own
abs(a) == IF a < 0 THEN 0 - a ELSE a

\* int(math.Copysign(float64(m), d)) for an integer d that is not 0
copysign(m, d) == IF d < 0 THEN 0 - m ELSE m

\* the rectangle (process) branch, w = 40 and h = 20
rectanglePoint(x, y, otherX, otherY, fused) ==
    LET dx    == otherX - x
        dy    == otherY - y
        candY == mulAdd(y, fdiv(20, abs(dx)), dy, fused)
        candX == mulAdd(x, fdiv(10, abs(dy)), dx, fused)
    IN IF dx # 0 /\ geInt(candY, y - 10) /\ leInt(candY, y + 10)
       THEN Point(x + copysign(20, dx), truncInt(candY))
       ELSE IF dy # 0 /\ geInt(candX, x - 20) /\ leInt(candX, x + 20)
       THEN Point(truncInt(candX), y + copysign(10, dy))
       ELSE Point(x, y)

\* int(d/dist*nodeRadius) with dist = math.Hypot(d, o), nodeRadius = 20, for
\* integers d, o not both 0. The exact value 20*d/sqrt(d*d + o*o) is at least
\* 1/(40*(d*d + o*o)) away from the integers it is not equal to, far more than
\* the rounding errors of Hypot, the division and the product, so that its
\* truncation is the result; where it is an integer and o # 0 the result
\* depends on how the build rounds (Hypot in assembly or in Go): that integer
\* or the one next to it toward zero.
circleOffsets(d, o) ==
    LET D == d * d + o * o
        m == CHOOSE n \in 0..20 :
                 n * n * D <= 400 * d * d /\ (n + 1) * (n + 1) * D > 400 * d * d
        exact == m * m * D = 400 * d * d
    IN {copysign(n, d) : n \in IF exact /\ o # 0 /\ m > 0 THEN {m, m - 1} ELSE {m}}

\* the circle (event) branch
circlePoints(x, y, otherX, otherY) ==
    LET dx == otherX - x
        dy == otherY - y
    IN IF dx = 0 /\ dy = 0 THEN {Point(x, y)}
       ELSE {Point(x + a, y + b) : a \in circleOffsets(dx, dy), b \in circleOffsets(dy, dx)}

\* the points intersectionPoint(x, y, otherX, otherY, isProcess) can return
intersectionPoint(x, y, otherX, otherY, isProcess) ==
    IF ~isProcess THEN circlePoints(x, y, otherX, otherY)
    ELSE {rectanglePoint(x, y, otherX, otherY, fused) : fused \in BOOLEAN}

\* the centres and the offsets of the other point intersectionPoint is called with
ClipCentres == {0 - 7, 0, 200}
ClipOffsets == {0 - 294, 0 - 147, 0 - 4, 0, 3, 147, 294}

\* drawArrow is about to call intersectionPoint
InitClip ==
    /\ rev = "five"
    /\ runs = 1
    /\ prev = <<>>
    /\ pc = "intersectionPoint"
    /\ args = NoArgs
    /\ loop = <<>>
    /\ scenarios = <<>>
    /\ i = 0
    /\ stdout = <<>>
    /\ logged = <<>>
    /\ canvas = NoCanvas
    /\ file = "absent"
    /\ err = NoError
    /\ status = "running"
    /\ \E x \in ClipCentres, y \in ClipCentres, dx \in ClipOffsets, dy \in ClipOffsets,
          isProcess \in BOOLEAN :
          call = [fn |-> "intersectionPoint", x |-> x, y |-> y, otherX |-> x + dx,
                  otherY |-> y + dy, isProcess |-> isProcess, returned |-> FALSE,
                  point |-> Point(0, 0)]

intersectionPointCall ==
    /\ pc = "intersectionPoint"
    /\ ~call.returned
    /\ \E pt \in intersectionPoint(call.x, call.y, call.otherX, call.otherY, call.isProcess) :
          call' = [call EXCEPT !.returned = TRUE, !.point = pt]
    /\ pc' = "returned"
    /\ UNCHANGED <<rev, runs, prev, args, loop, scenarios, i, stdout, logged, canvas, file,
                   err, status>>

\* --------------------------------------------------- drawLine on its own
\* the image drawLine draws on is MaxLine pixels wide and high; the end points
\* range from one pixel outside it on one side to one pixel outside on the other
MaxLine == 3

LineCoords == (0 - 1)..MaxLine

\* Point{x, y}.In(img.Rect) for the image image.Rect(0, 0, MaxLine, MaxLine)
inImage(x, y) == 0 <= x /\ x < MaxLine /\ 0 <= y /\ y < MaxLine

\* img.Set(x, y, col) on the pixels set so far: a point outside the image's
\* rectangle is ignored
imgSet(pixels, x, y) == IF inImage(x, y) THEN pixels \cup {Point(x, y)} ELSE pixels

\* a caller is about to call drawLine
InitLine ==
    /\ rev \in {"three", "five"}
    /\ runs = 1
    /\ prev = <<>>
    /\ pc = "drawLine"
    /\ args = NoArgs
    /\ loop = <<>>
    /\ scenarios = <<>>
    /\ i = 0
    /\ stdout = <<>>
    /\ logged = <<>>
    /\ canvas = NoCanvas
    /\ file = "absent"
    /\ err = NoError
    /\ status = "running"
    /\ \E x0 \in LineCoords, y0 \in LineCoords, x1 \in LineCoords, y1 \in LineCoords :
          call = [fn |-> "drawLine", fromX |-> x0, fromY |-> y0, x0 |-> x0, y0 |-> y0,
                  x1 |-> x1, y1 |-> y1, dx |-> 0, sx |-> 0, dy |-> 0, sy |-> 0, err |-> 0,
                  points |-> <<>>, pixels |-> {}, returned |-> FALSE]

\* drawLine up to its loop: dx, sx, dy, sy, err
drawLine ==
    /\ pc = "drawLine"
    /\ call' = [call EXCEPT !.dx  = abs(call.x1 - call.x0),
                            !.sx  = IF call.x0 > call.x1 THEN 0 - 1 ELSE 1,
                            !.dy  = 0 - abs(call.y1 - call.y0),
                            !.sy  = IF call.y0 > call.y1 THEN 0 - 1 ELSE 1,
                            !.err = abs(call.x1 - call.x0) - abs(call.y1 - call.y0)]
    /\ pc' = "drawLine.for"
    /\ UNCHANGED <<rev, runs, prev, args, loop, scenarios, i, stdout, logged, canvas, file,
                   err, status>>

\* one iteration that tests for the end point before it sets the pixel
drawLineFor_BreakBeforeSet ==
    /\ pc = "drawLine.for"
    /\ LET e2    == 2 * call.err
           stepX == e2 >= call.dy
           stepY == e2 <= call.dx
       IN IF call.x0 = call.x1 /\ call.y0 = call.y1
          THEN /\ call' = [call EXCEPT !.returned = TRUE]
               /\ pc' = "returned"
          ELSE /\ call' = [call EXCEPT
                             !.points = Append(@, Point(call.x0, call.y0)),
                             !.pixels = imgSet(@, call.x0, call.y0),
                             !.err = @ + (IF stepX THEN call.dy ELSE 0)
                                       + (IF stepY THEN call.dx ELSE 0),
                             !.x0  = IF stepX THEN @ + call.sx ELSE @,
                             !.y0  = IF stepY THEN @ + call.sy ELSE @]
               /\ pc' = "drawLine.for"
    /\ UNCHANGED <<rev, runs, prev, args, loop, scenarios, i, stdout, logged, canvas, file,
                   err, status>>

\* one iteration of the loop: img.Set, then the break at the end point or the
\* step to the next point
drawLineFor ==
    /\ pc = "drawLine.for"
    /\ LET e2    == 2 * call.err
           stepX == e2 >= call.dy
           stepY == e2 <= call.dx
       IN IF call.x0 = call.x1 /\ call.y0 = call.y1
          THEN /\ call' = [call EXCEPT
                             !.points = Append(@, Point(call.x0, call.y0)),
                             !.pixels = imgSet(@, call.x0, call.y0),
                             !.returned = TRUE]
               /\ pc' = "returned"
          ELSE /\ call' = [call EXCEPT
                             !.points = Append(@, Point(call.x0, call.y0)),
                             !.pixels = imgSet(@, call.x0, call.y0),
                             !.err = @ + (IF stepX THEN call.dy ELSE 0)
                                       + (IF stepY THEN call.dx ELSE 0),
                             !.x0  = IF stepX THEN @ + call.sx ELSE @,
                             !.y0  = IF stepY THEN @ + call.sy ELSE @]
               /\ pc' = "drawLine.for"
    /\ UNCHANGED <<rev, runs, prev, args, loop, scenarios, i, stdout, logged, canvas, file,
                   err, status>>

\* --------------------------------------------------------- specifications
Next ==
    \/ run
    \/ runRender
    \/ runList
    \/ generateScenarios
    \/ printLine
    \/ listReturn
    \/ renderAllScenarios
    \/ drawPanel
    \/ createFile
    \/ encodePNG
    \/ main
    \/ rootExecute
    \/ renderCmdExecute
    \/ listCmdExecute
    \/ Render
    \/ List

\* one invocation of the program
Spec == Init /\ [][Next]_vars

NextRuns == Next \/ invokeAgain

\* up to MaxRuns invocations, one after the other
SpecRuns == Init /\ [][NextRuns]_vars

NextWrap == drawWrappedLabel

\* one call of drawWrappedLabel, with any text and width
SpecWrap == InitWrap /\ [][NextWrap]_vars

NextClip == intersectionPointCall

\* one call of intersectionPoint, with any two points and either shape
SpecClip == InitClip /\ [][NextClip]_vars

NextLine == drawLine \/ drawLineFor

\* one call of drawLine, with any two end points in or next to the image
SpecLine == InitLine /\ [][NextLine]_vars

\* ------------------------------------------------------------- properties
\* generateScenarios has just returned its slice to runRender or runList
JustReturned == pc = "renderAllScenarios" \/ (pc = "list" /\ i = 0)

\* the loop variables of every axis combination
Combinations(r) ==
    IF r = "three"
    THEN {<<ab, c, d>> : ab \in 0..3, c \in 0..3, d \in 0..3}
    ELSE {<<ab, c, d, tm, ty>> : ab \in 0..3, c \in 0..3, d \in 0..3, tm \in 0..2, ty \in 0..3}

ScenarioOf(r, idx) ==
    IF r = "three"
    THEN Scenario3(idx[1], idx[2], idx[3])
    ELSE Scenario5(abPatterns[idx[1] + 1], cPatterns[idx[2] + 1], dPatterns[idx[3] + 1],
                   timePatterns[idx[4] + 1], typePatterns[idx[5] + 1])

C2_NoDuplicates ==
    JustReturned =>
        \A a, b \in 1..Len(scenarios) :
            a # b => <<scenarios[a].Title, scenarios[a].Subtitle>>
                       # <<scenarios[b].Title, scenarios[b].Subtitle>>

C2_Witness ==
    /\ pc = "list" /\ i = 0 /\ rev = "three" /\ Len(scenarios) > 1
    /\ scenarios[1].Title = scenarios[2].Title
    /\ scenarios[1].Subtitle # scenarios[2].Subtitle

\* the axis values of the scenario at 0-based index k
DigitsOf(r, k) ==
    IF r = "three"
    THEN << k \div 16, (k \div 4) % 4, k % 4 >>
    ELSE << k \div 192, (k \div 48) % 4, (k \div 12) % 4, (k \div 4) % 3, k % 4 >>

\* C3: in the returned slice the scenario at 0-based index k is the one of the
\* mixed-radix digits of k (AB outermost, then C, then D, then timing, then
\* type), and during the generation the scenario appended last is.
C3_NestedLoopOrder ==
    /\ JustReturned =>
          \A k \in 0..(Len(scenarios) - 1) : scenarios[k + 1] = ScenarioOf(rev, DigitsOf(rev, k))
    /\ (pc = "generateScenarios" /\ scenarios # <<>>) =>
          scenarios[Len(scenarios)] = ScenarioOf(rev, DigitsOf(rev, Len(scenarios) - 1))

C3_Witness ==
    /\ JustReturned /\ rev = "three" /\ Len(scenarios) > 27
    /\ scenarios[28].Title = "A <U+2192> B"
    /\ scenarios[28].Subtitle = "C influences B only; D influences both A and B"
    /\ scenarios[28].Nodes = <<"C", "D", "A", "B">>

LongRest(s) == ". " \o s.Title \o " <U+2014> " \o s.Subtitle

\* list --long has printed its lines up to line i
LongListing == pc = "list" /\ args.long

\* line k of the listing is k written as two digits, then LongRest
TwoDigitLine(k) ==
    \E d1, d2 \in 0..9 :
        /\ 10 * d1 + d2 = k
        /\ stdout[k] = Digit[d1 + 1] \o Digit[d2 + 1] \o LongRest(scenarios[k])

\* line k of the listing is k in decimal on two digits (k < 100) or on three
\* digits without a leading zero (k >= 100), then LongRest
PaddedLine(k) ==
    \E d1, d2, d3 \in 0..9 :
        /\ 100 * d1 + 10 * d2 + d3 = k
        /\ stdout[k] = (IF d1 = 0 THEN "" ELSE Digit[d1 + 1])
                         \o Digit[d2 + 1] \o Digit[d3 + 1] \o LongRest(scenarios[k])

\* C5 as stated: list --long prints one line per scenario, in generation
\* order, and line k starts with k written as two digits followed by a period
\* (the line printed last, and every line once the loop has ended).
C5_TwoDigitIndex ==
    LongListing =>
        /\ Len(stdout) = i
        /\ i <= Len(scenarios)
        /\ i >= 1 => TwoDigitLine(i)
        /\ i = Len(scenarios) => \A k \in 1..i : TwoDigitLine(k)

\* C5 as amended: list --long prints one line per scenario, in generation
\* order, and line k starts with k in decimal, padded with a zero to two
\* digits when k < 10 and on three digits from k = 100 on, followed by a
\* period (the line printed last, and every line once the loop has ended).
C5_PaddedIndex ==
    LongListing =>
        /\ Len(stdout) = i
        /\ i <= Len(scenarios)
        /\ i >= 1 => PaddedLine(i)
        /\ i = Len(scenarios) => \A k \in 1..i : PaddedLine(k)

C5_Witness ==
    /\ LongListing /\ rev = "five" /\ i = 100
    /\ stdout[7] = "07. AB: none, Time: A before B, Type: A process, B event <U+2014> C: none, D: none"
    /\ stdout[100] = "100. AB: none, Time: A,B same, Type: A,B processes <U+2014> C: C->B, D: none"

\* render was given --columns with a value below 1, and the flags parsed
BadColumns ==
    /\ pc # "main"
    /\ args.cmd = "render" /\ ~args.flagErr /\ args.hasColumns /\ args.columns < 1

\* C6: render with a column count of 0 or below is rejected with an error:
\* no scenario is generated or drawn, no file is created, and the invocation
\* ends with the failure status.
C6_BadColumnsRejected ==
    BadColumns =>
        /\ scenarios = <<>>
        /\ canvas = NoCanvas
        /\ file = "absent"
        /\ pc = "exited" => status = "fatal"

\* the canvas of renderAllScenarios exists
CanvasAllocated == pc \in {"panels", "encode"}

\* C7: for N scenarios and cols >= 1 columns the canvas has rows = ceil(N / cols)
\* (rows * cols >= N and (rows - 1) * cols < N), width cols*360 + (cols+1)*20
\* and height 50 + 120 + rows*220 + (rows+2)*20.
C7_CanvasSize ==
    CanvasAllocated =>
        LET N == Len(scenarios)
            cols == columnsFlag(args)
        IN /\ cols >= 1 /\ N >= 1
           /\ canvas.cols = cols
           /\ canvas.rows * cols >= N
           /\ (canvas.rows - 1) * cols < N
           /\ canvas.W = cols * 360 + (cols + 1) * 20
           /\ canvas.H = 50 + 120 + canvas.rows * 220 + (canvas.rows + 2) * 20

C7_Witness ==
    /\ CanvasAllocated /\ rev = "three" /\ args.hasColumns /\ args.columns = 3
    /\ canvas.rows = 22 /\ canvas.W = 1160 /\ canvas.H = 5490

\* the program was started without argument or with help, --help or -h, and
\* run has returned
HelpAsked == pc \in {"return", "exited"} /\ args.cmd \in {"", "help", "--help", "-h"}

\* C8: without argument, or with help, --help or -h, the usage is printed and
\* the program succeeds; no scenario is generated and no file is written.
C8_HelpSucceeds ==
    HelpAsked =>
        /\ stdout = <<usageText>>
        /\ err = NoError
        /\ scenarios = <<>>
        /\ canvas = NoCanvas
        /\ file = "absent"
        /\ pc = "exited" => status = "ok"

CreateFailed == "failed to create output file" \in Range(logged)

EncodeFailed == "failed to encode PNG" \in Range(logged)

\* C9: when os.Create or png.Encode fails the process ends at once with the
\* failure status: the failure is the only thing logged (no retry, no encoding
\* after a failed create, no "Generated:" line) and no file is written.
C9_FatalOnOutputError ==
    /\ CreateFailed =>
          /\ pc = "exited" /\ status = "fatal"
          /\ logged = <<"failed to create output file">>
          /\ file = "absent"
    /\ EncodeFailed =>
          /\ pc = "exited" /\ status = "fatal"
          /\ logged = <<"failed to encode PNG">>
          /\ file = "created"
    /\ ("Generated: " \o outputFlag) \in Range(logged) =>
          /\ file = "written" /\ status # "fatal"
          /\ logged = <<"Generated: " \o outputFlag>>

C9_Witness == CreateFailed /\ rev = "three" /\ Len(canvas.ops) = 4 + 64

\* render or list was given flags the flag package rejects
FlagError == pc # "main" /\ args.cmd \in {"render", "list"} /\ args.flagErr

\* C10: a flag-parsing error of render or list is returned as an error and
\* ends the invocation with the failure status: nothing is generated, listed,
\* drawn or written.
C10_FlagErrorAborts ==
    FlagError =>
        /\ pc \in {"runRender", "runList", "renderCmd.Execute", "listCmd.Execute",
                   "return", "exited"}
        /\ scenarios = <<>> /\ stdout = <<>> /\ canvas = NoCanvas /\ file = "absent"
        /\ pc \in {"return", "exited"} => err # NoError
        /\ pc = "exited" => status = "fatal" /\ logged = <<err>>

C10_Witness == FlagError /\ pc = "exited" /\ rev = "cmd" /\ args.cmd = "list" /\ err = "flag parse error"

\* the canvas-level drawing calls of renderAllScenarios before the panel loop
HeaderDrawn == <<"background", "title", "source", "legend">>

\* the output file was opened or written by this invocation of main.go
FileTouched == rev \in {"three", "five"} /\ file # "absent"

\* the number of completed png.Encode calls
Writes == Cardinality({j \in 1..Len(logged) : logged[j] = "Generated: " \o outputFlag})

\* C11: a render invocation writes the output file exactly once, and only
\* after the background, the title, the legend and every scenario panel have
\* been drawn; the panels are drawn after the legend, in scenario order from
\* index 0.
C11_OneWriteAfterDrawing ==
    rev \in {"three", "five"} =>
        /\ Len(canvas.ops) > 0 =>
              /\ Len(canvas.ops) = 4 + i
              /\ \A k \in 1..4 : canvas.ops[k].what = HeaderDrawn[k]
              /\ i > 0 => canvas.ops[4 + i] =
                              Draw("panel", i - 1, panelX(i - 1, canvas.cols),
                                   panelY(i - 1, canvas.cols))
        /\ pc = "encode" =>
              /\ Len(canvas.ops) = 4 + Len(scenarios)
              /\ \A k \in 1..Len(scenarios) :
                    canvas.ops[4 + k].what = "panel" /\ canvas.ops[4 + k].k = k - 1
        /\ FileTouched => i = Len(scenarios) /\ Len(canvas.ops) = 4 + Len(scenarios)
        /\ Writes = (IF file = "written" THEN 1 ELSE 0)
        /\ (pc = "exited" /\ status # "fatal" /\ args.cmd = "render") =>
              file = "written"

C11_Witness ==
    /\ rev = "three" /\ pc = "exited" /\ file = "written" /\ Writes = 1
    /\ Len(canvas.ops) = 4 + 64 /\ canvas.ops[5].k = 0 /\ canvas.ops[68].k = 63

\* drawScenario has drawn a panel: the latest one shows scenarios[i]
PanelDrawn(r) == rev = r /\ pc \in {"panels", "encode", "exited", "return"} /\ canvas.last # <<>>

\* the calls of the latest panel that drew the shape of node n
ShapeOps(n) ==
    {k \in 1..Len(canvas.last) :
        canvas.last[k].what \in {"circle", "process"} /\ canvas.last[k].label = n}

\* where the latest panel shows node n
DrawnAt(n) == canvas.last[CHOOSE k \in ShapeOps(n) : TRUE]

\* the text lines of the latest panel
TextOps == {k \in 1..Len(canvas.last) : canvas.last[k].what \in {"title", "subtitle"}}

\* the two rows of the three-axis panel: 90 and 170 pixels below the panel
\* top, moved down by one line height for every wrapped line of text
UpperRow == panelY(i - 1, canvas.cols) + 90 + (Cardinality(TextOps) - 2) * lineHeight
LowerRow == panelY(i - 1, canvas.cols) + 170 + (Cardinality(TextOps) - 2) * lineHeight

\* node n of scenario s has an incoming edge, a bidirectional edge counting
\* for both its ends
HasIncoming(s, n) ==
    \E k \in 1..Len(s.Edges) :
        s.Edges[k].To = n \/ (s.Edges[k].Bidirectional /\ s.Edges[k].From = n)

\* C12: in a three-axis panel a node is on the upper row exactly when it has
\* no incoming edge (a bidirectional edge is incoming for both ends) and on
\* the lower row otherwise, except that all nodes are on the upper row when
\* every node has an incoming edge.
C12_RowsByIncoming ==
    PanelDrawn("three") =>
        LET s == scenarios[i]
            allIncoming == \A n \in Range(s.Nodes) : HasIncoming(s, n)
        IN \A n \in Range(s.Nodes) :
              /\ Cardinality(ShapeOps(n)) = 1
              /\ DrawnAt(n).y = IF allIncoming \/ ~HasIncoming(s, n) THEN UpperRow ELSE LowerRow
              /\ DrawnAt(n).y # (IF allIncoming \/ ~HasIncoming(s, n) THEN LowerRow ELSE UpperRow)

\* the panel of "A <-> B" alone: both nodes have an incoming edge
C12_Witness ==
    /\ PanelDrawn("three") /\ pc = "panels"
    /\ scenarios[i].Nodes = <<"A", "B">>
    /\ HasIncoming(scenarios[i], "A") /\ HasIncoming(scenarios[i], "B")
    /\ DrawnAt("A").y = UpperRow /\ DrawnAt("B").y = UpperRow

\* the axis values of the scenario of the latest panel
PanelDigits == DigitsOf(rev, i - 1)

\* C13: in the three-axis revision every panel of a mutualism scenario
\* (A <-> B) shows A and B on the same row, whatever C and D do.
C13_MutualismSameRow ==
    (PanelDrawn("three") /\ PanelDigits[1] = 3) =>
        /\ scenarios[i].Title = "A <U+2194> B (mutualism)"
        /\ Cardinality(ShapeOps("A")) = 1 /\ Cardinality(ShapeOps("B")) = 1
        /\ DrawnAt("A").y = DrawnAt("B").y

\* mutualism with C influencing A only: A and B both on the lower row
C13_Witness ==
    /\ PanelDrawn("three") /\ pc = "panels"
    /\ PanelDigits = <<3, 1, 0>>
    /\ DrawnAt("A").y = LowerRow /\ DrawnAt("B").y = LowerRow /\ DrawnAt("C").y = UpperRow

\* the top layer of the five-axis panel: 80 pixels below the panel top
TopLayer == panelY(i - 1, canvas.cols) + 80

\* C14: in a five-axis panel A is strictly above B (smaller y) when the
\* timing is "A before B", B strictly above A when it is "B before A", and
\* both have the same y when it is "A,B same"; C and D, when present, are on
\* the top layer and drawn as circles.
C14_TimingIsVertical ==
    PanelDrawn("five") =>
        /\ Cardinality(ShapeOps("A")) = 1 /\ Cardinality(ShapeOps("B")) = 1
        /\ scenarios[i].Title = "AB: " \o abPatterns[PanelDigits[1] + 1] \o ", Time: "
                                 \o timePatterns[PanelDigits[4] + 1] \o ", Type: "
                                 \o typePatterns[PanelDigits[5] + 1]
        /\ timePatterns[PanelDigits[4] + 1] = "A before B" => DrawnAt("A").y < DrawnAt("B").y
        /\ timePatterns[PanelDigits[4] + 1] = "B before A" => DrawnAt("B").y < DrawnAt("A").y
        /\ timePatterns[PanelDigits[4] + 1] = "A,B same"   => DrawnAt("A").y = DrawnAt("B").y
        /\ \A n \in {"C", "D"} :
              /\ Cardinality(ShapeOps(n)) = (IF PanelDigits[IF n = "C" THEN 2 ELSE 3] # 0 THEN 1 ELSE 0)
              /\ ShapeOps(n) # {} =>
                    /\ DrawnAt(n).what = "circle"
                    /\ DrawnAt(n).y = TopLayer
                    /\ DrawnAt(n).y <= DrawnAt("A").y /\ DrawnAt(n).y <= DrawnAt("B").y

\* "A before B" with D influencing A: D and A on the top layer, B below
C14_Witness ==
    /\ PanelDrawn("five") /\ pc = "panels"
    /\ PanelDigits = <<0, 0, 1, 1, 0>>
    /\ DrawnAt("A").y = TopLayer /\ DrawnAt("B").y > TopLayer
    /\ DrawnAt("D").y = TopLayer /\ DrawnAt("D").what = "circle"

\* the edges the pattern codes ask for: ab, c, d are 0 (none), then for A-B:
\* 1 (A -> B), 2 (B -> A), 3 (mutualism); for C and D: 1 (A only), 2 (B only),
\* 3 (both)
ExpectedEdges(ab, c, d) ==
    (IF ab = 1 THEN {Edge("A", "B", FALSE)} ELSE {})
    \cup (IF ab = 2 THEN {Edge("B", "A", FALSE)} ELSE {})
    \cup (IF ab = 3 THEN {Edge("A", "B", TRUE)} ELSE {})
    \cup {Edge("C", "A", FALSE) : x \in {c} \cap {1, 3}}
    \cup {Edge("C", "B", FALSE) : x \in {c} \cap {2, 3}}
    \cup {Edge("D", "A", FALSE) : x \in {d} \cap {1, 3}}
    \cup {Edge("D", "B", FALSE) : x \in {d} \cap {2, 3}}

\* the edge list of the scenario at 0-based index k follows its pattern codes
EdgesFollowCodes(k) ==
    LET s      == scenarios[k + 1]
        digits == DigitsOf(rev, k)
    IN /\ Range(s.Edges) = ExpectedEdges(digits[1], digits[2], digits[3])
       /\ Len(s.Edges) = Cardinality(Range(s.Edges))
       /\ \A e \in Range(s.Edges) :
             /\ e.To \in {"A", "B"}
             /\ e.From \in {"C", "D"} => ~e.Bidirectional
       /\ Cardinality({e \in Range(s.Edges) : {e.From, e.To} = {"A", "B"}}) <= 1

\* C15: the edge list of every generated scenario follows the pattern codes:
\* no A-B edge for none, one edge (A,B) for A -> B, one edge (B,A) for B -> A,
\* one bidirectional edge (A,B) for mutualism and never two opposite edges; C
\* (and D) has an edge to A iff its pattern is A only or both, an edge to B
\* iff it is B only or both; C and D edges are unidirectional and no edge
\* targets C or D.
C15_EdgesFollowCodes ==
    rev \in {"three", "five"} =>
        /\ JustReturned => \A k \in 0..(Len(scenarios) - 1) : EdgesFollowCodes(k)
        /\ (pc = "generateScenarios" /\ scenarios # <<>>) => EdgesFollowCodes(Len(scenarios) - 1)

\* mutualism with C and D both influencing A and B: five edges
C15_Witness ==
    /\ rev = "three" /\ JustReturned /\ Len(scenarios) = 64
    /\ DigitsOf(rev, 63) = <<3, 3, 3>>
    /\ Len(scenarios[64].Edges) = 5
    /\ Edge("A", "B", TRUE) \in Range(scenarios[64].Edges)

\* the node names of scenario s, in list order
NodeNames(s) ==
    IF rev = "three" THEN s.Nodes ELSE [j \in 1..Len(s.Nodes) |-> s.Nodes[j].Name]

\* the node list of the scenario at 0-based index k follows its pattern codes
NodesFollowCodes(k) ==
    LET names  == NodeNames(scenarios[k + 1])
        digits == DigitsOf(rev, k)
        c      == IF digits[2] # 0 THEN <<"C">> ELSE <<>>
        d      == IF digits[3] # 0 THEN <<"D">> ELSE <<>>
    IN /\ {"A", "B"} \subseteq Range(names)
       /\ "C" \in Range(names) <=> digits[2] # 0
       /\ "D" \in Range(names) <=> digits[3] # 0
       /\ Range(names) \subseteq {"A", "B", "C", "D"}
       /\ Len(names) = Cardinality(Range(names))
       /\ names = IF rev = "three" THEN c \o d \o <<"A", "B">> ELSE <<"A", "B">> \o c \o d

\* C16: the node list of every generated scenario holds A and B, C exactly
\* when C's pattern is not none, D exactly when D's pattern is not none, each
\* name at most once; in the order C, D, A, B in the three-axis revision and
\* A, B, C, D in the five-axis revision.
C16_NodesFollowCodes ==
    rev \in {"three", "five"} =>
        /\ JustReturned => \A k \in 0..(Len(scenarios) - 1) : NodesFollowCodes(k)
        /\ (pc = "generateScenarios" /\ scenarios # <<>>) => NodesFollowCodes(Len(scenarios) - 1)

\* D without C, and C and D together, in the three-axis revision
C16_Witness ==
    /\ rev = "three" /\ JustReturned /\ Len(scenarios) = 64
    /\ scenarios[2].Nodes = <<"D", "A", "B">>
    /\ scenarios[64].Nodes = <<"C", "D", "A", "B">>
    /\ scenarios[1].Nodes = <<"A", "B">>

\* the text the latest panel shows for a field: its drawn lines, in order
DrawnText(what) ==
    LET ops == SelectSeq(canvas.last, LAMBDA o : o.what = what)
    IN joinWords([k \in 1..Len(ops) |-> ops[k].label])

\* C17: every scenario panel is drawn with both its wrapped title text and
\* its wrapped subtitle text.
C17_TitleAndSubtitleDrawn ==
    (PanelDrawn("three") \/ PanelDrawn("five")) =>
        /\ \E k \in 1..Len(canvas.last) : canvas.last[k].what = "title"
        /\ \E k \in 1..Len(canvas.last) : canvas.last[k].what = "subtitle"
        /\ DrawnText("title") = scenarios[i].Title
        /\ DrawnText("subtitle") = scenarios[i].Subtitle

\* the layer of a drawing call: frame, text, edges, nodes
Layer(o) ==
    CASE o.what \in {"fill", "border"}            -> 1
      [] o.what \in {"title", "subtitle"}          -> 2
      [] o.what \in {"arrow", "biarrow"}           -> 3
      [] o.what \in {"circle", "process", "label"} -> 4

\* C18: a panel is drawn in the order background and border, then text, then
\* all edges, then all nodes: no edge is drawn after a node shape or a node
\* label of the same panel.
C18_EdgesBeforeNodes ==
    (PanelDrawn("three") \/ PanelDrawn("five")) =>
        LET ops == canvas.last
        IN /\ Len(ops) >= 2 /\ ops[1].what = "fill" /\ ops[2].what = "border"
           /\ \A k \in 1..(Len(ops) - 1) : Layer(ops[k]) <= Layer(ops[k + 1])
           /\ \A e \in 1..Len(ops), n \in 1..Len(ops) :
                 (Layer(ops[e]) = 3 /\ Layer(ops[n]) = 4) => e < n
           /\ Cardinality({k \in 1..Len(ops) : Layer(ops[k]) = 3}) = Len(scenarios[i].Edges)
           /\ Cardinality({k \in 1..Len(ops) : ops[k].what \in {"circle", "process"}})
                 = Len(scenarios[i].Nodes)
           /\ Cardinality({k \in 1..Len(ops) : ops[k].what = "label"}) = Len(scenarios[i].Nodes)

\* a three-axis panel with five edges and four nodes
C18_Witness ==
    /\ PanelDrawn("three") /\ pc = "panels" /\ PanelDigits = <<3, 3, 3>>
    /\ Cardinality({k \in 1..Len(canvas.last) : Layer(canvas.last[k]) = 3}) = 5
    /\ Cardinality({k \in 1..Len(canvas.last) : canvas.last[k].what = "circle"}) = 4
    /\ canvas.last[Len(canvas.last)].what = "label"

\* drawWrappedLabel has returned
Wrapped == call.fn = "drawWrappedLabel" /\ call.returned

Clipped == call.fn = "intersectionPoint" /\ call.returned

PanelAt(k) == canvas.ops[4 + k + 1]

\* the rectangles of panels j and k are apart by the margin or more, to the
\* side or above and below
Apart(j, k) ==
    \/ PanelAt(j).x + panelW + margin <= PanelAt(k).x
    \/ PanelAt(k).x + panelW + margin <= PanelAt(j).x
    \/ PanelAt(j).y + panelH + margin <= PanelAt(k).y
    \/ PanelAt(k).y + panelH + margin <= PanelAt(j).y

\* C21: panel k is placed at column k mod cols and row k div cols; its
\* 360x220 rectangle lies inside the canvas and below the legend rectangle,
\* and it is at least the 20-pixel margin away from every other panel.
C21_PanelsInGrid ==
    (rev \in {"three", "five"} /\ pc = "panels" /\ i > 0) =>
        LET k == i - 1
            p == PanelAt(k)
        IN /\ canvas.cols >= 1 /\ Len(scenarios) >= 1
           /\ p.what = "panel" /\ p.k = k
           /\ p.x = 20 + (k % canvas.cols) * (360 + 20)
           /\ p.y = 20 + 50 + 120 + 20 + (k \div canvas.cols) * (220 + 20)
           /\ 0 <= p.x /\ p.x + 360 <= canvas.W
           /\ 0 <= p.y /\ p.y + 220 <= canvas.H
           /\ p.y >= legendTop + legendHeight
           /\ \A j \in 0..(k - 1) : Apart(j, k)

\* three columns: the last panel of the three-axis grid alone on row 21
C21_Witness ==
    /\ rev = "three" /\ pc = "panels" /\ i = 64 /\ canvas.cols = 3 /\ canvas.rows = 22
    /\ PanelAt(63).x = 20 /\ PanelAt(63).y = 210 + 21 * 240
    /\ PanelAt(63).y + 220 + 20 = canvas.H

\* the arrows of the latest panel from node a to node b
ArrowOps(a, b) ==
    {k \in 1..Len(canvas.last) :
        canvas.last[k].what \in {"arrow", "biarrow"} /\ canvas.last[k].label = a \o b}

\* C22: in every panel both ends of every edge are nodes of the scenario,
\* every node has a position, two different nodes have different positions,
\* and so every edge is drawn: none is skipped by the zero-length guard of
\* drawArrow and drawBidirectionalArrow.
C22_EveryEdgeDrawn ==
    (PanelDrawn("three") \/ PanelDrawn("five")) =>
        LET s     == scenarios[i]
            names == Range(NodeNames(s))
        IN /\ \A e \in Range(s.Edges) : e.From \in names /\ e.To \in names
           /\ \A n \in names : Cardinality(ShapeOps(n)) = 1
           /\ \A n \in names, o \in names :
                 n # o => <<DrawnAt(n).x, DrawnAt(n).y>> # <<DrawnAt(o).x, DrawnAt(o).y>>
           /\ \A e \in Range(s.Edges) :
                 /\ Cardinality(ArrowOps(e.From, e.To)) = 1
                 /\ \A k \in ArrowOps(e.From, e.To) :
                       /\ canvas.last[k].what = (IF e.Bidirectional THEN "biarrow" ELSE "arrow")
                       /\ canvas.last[k].x = DrawnAt(e.From).x /\ canvas.last[k].y = DrawnAt(e.From).y
                       /\ canvas.last[k].x2 = DrawnAt(e.To).x /\ canvas.last[k].y2 = DrawnAt(e.To).y
                       /\ <<canvas.last[k].x, canvas.last[k].y>> # <<canvas.last[k].x2, canvas.last[k].y2>>
           /\ Cardinality({k \in 1..Len(canvas.last) : canvas.last[k].what \in {"arrow", "biarrow"}})
                 = Len(s.Edges)

\* mutualism with C and D both influencing A and B: four nodes at four
\* places, five arrows
C22_Witness ==
    /\ PanelDrawn("three") /\ pc = "panels" /\ PanelDigits = <<3, 3, 3>>
    /\ Cardinality({<<DrawnAt(n).x, DrawnAt(n).y>> : n \in {"A", "B", "C", "D"}}) = 4
    /\ Cardinality(ArrowOps("A", "B")) = 1 /\ Cardinality(ArrowOps("D", "B")) = 1
    /\ DrawnAt("A").y = DrawnAt("B").y /\ DrawnAt("A").x # DrawnAt("B").x


LineLength == IF abs(call.x1 - call.fromX) >= abs(call.y1 - call.fromY)
              THEN abs(call.x1 - call.fromX) ELSE abs(call.y1 - call.fromY)

LineLeft == IF abs(call.x1 - call.x0) >= abs(call.y1 - call.y0)
            THEN abs(call.x1 - call.x0) ELSE abs(call.y1 - call.y0)

Between(a, v, b) == (a <= v /\ v <= b) \/ (b <= v /\ v <= a)

\* every iteration brings the current point one step nearer to the end point,
\* so the loop ends after max(|x1-x0|, |y1-y0|) + 1 calls of img.Set
LineTerminates ==
    /\ pc = "drawLine.for" => Len(call.points) + LineLeft = LineLength
    /\ pc = "returned" => Len(call.points) = LineLength + 1

\* on return the start and the end pixel are set, max(|x1-x0|, |y1-y0|) + 1
\* pixels are set, and each of them is in the bounding box of the end points
LineDrawn ==
    pc = "returned" =>
        /\ call.returned
        /\ Point(call.fromX, call.fromY) \in call.pixels
        /\ Point(call.x1, call.y1) \in call.pixels
        /\ Cardinality(call.pixels) = LineLength + 1
        /\ \A p \in call.pixels : /\ Between(call.fromX, p.x, call.x1)
                                  /\ Between(call.fromY, p.y, call.y1)

====
